---- MODULE Spec2Model ----
(***************************************************************************)
(* A model of dvisvgm's TFM reader (src/src/TFM.cpp): the big-endian       *)
(* reader read_unsigned, the table loader read_words / readFromStream,     *)
(* the factory createFromFile and the four per-character metric queries.   *)
(*                                                                         *)
(* Number representations                                                  *)
(*   UInt32   a pair <<hi, lo>> of 16-bit halves (value hi*2^16 + lo),      *)
(*            because a 32-bit unsigned value does not fit TLC's integers  *)
(*   UInt16, Int32 (FixWord), int   plain integers                         *)
(*   double   [m, e], the value m * 2^e with m odd (or m = 0, e = 0);      *)
(*            exact for every product the bounded inputs produce           *)
(***************************************************************************)
EXTENDS Integers, Sequences, FiniteSets, TLC

VARIABLES
    lib,         \* the C++ library the build links: which seekg it has
    obj,         \* "live": the TFM object exists; "none": no object
    tfm,         \* the TFM object's data members
    is,          \* the istream last handed to read_unsigned / readFromStream
    loadResult,  \* how the last readFromStream ended: "none", "true", "throw"
    ret,         \* the last query call: its arguments and what it did
    created,     \* the last createFromFile call and how it ended
    ru           \* the last read_unsigned call: arguments, stream before, result

vars == <<lib, obj, tfm, is, loadResult, ret, created, ru>>

\* ------------------------------------------------------------------------
\* Bounds of the model
\* ------------------------------------------------------------------------
\* longest byte stream handed to read_unsigned on its own
MaxLen == 4
\* largest header length lh (in words) of the generated TFM streams
MaxLh == 3
\* largest number of bytes cut from the end of a generated TFM stream
MaxCut == 6

\* ------------------------------------------------------------------------
\* 32-bit unsigned arithmetic on <<hi, lo>>
\* ------------------------------------------------------------------------
Half == 2^16

UInt32Zero == <<0, 0>>

\* UInt32(-1): what the conversion of istream::get()'s EOF (-1) gives
UInt32Ones == <<Half - 1, Half - 1>>

\* bitwise or / and of two non-negative integers, bit by bit
RECURSIVE BitOr(_, _)
BitOr(a, b) ==
    IF a = 0 THEN b
    ELSE IF b = 0 THEN a
    ELSE (IF a % 2 = 1 \/ b % 2 = 1 THEN 1 ELSE 0) + 2 * BitOr(a \div 2, b \div 2)

RECURSIVE BitAnd(_, _)
BitAnd(a, b) ==
    IF a = 0 \/ b = 0 THEN 0
    ELSE (IF a % 2 = 1 /\ b % 2 = 1 THEN 1 ELSE 0) + 2 * BitAnd(a \div 2, b \div 2)

\* x | y
Or32(x, y) == <<BitOr(x[1], y[1]), BitOr(x[2], y[2])>>

\* x & y
And32(x, y) == <<BitAnd(x[1], y[1]), BitAnd(x[2], y[2])>>

\* x << k, 0 <= k < 32, bits shifted out are lost
Shl32(x, k) ==
    IF k < 16
    THEN <<(x[1] * 2^k + x[2] \div 2^(16 - k)) % Half, (x[2] * 2^k) % Half>>
    ELSE <<(x[2] * 2^(k - 16)) % Half, 0>>

\* x >> k, 0 <= k < 32, zero filled
Shr32(x, k) ==
    IF k < 16
    THEN <<x[1] \div 2^k, (x[1] % 2^k) * 2^(16 - k) + x[2] \div 2^k>>
    ELSE <<0, x[1] \div 2^(k - 16)>>

\* int -> UInt32 (the conversion in "UInt32 b = is.get()")
IntToUInt32(c) == IF c < 0 THEN UInt32Ones ELSE <<c \div Half, c % Half>>

\* UInt32 -> UInt16: the low 16 bits
ToUInt16(x) == x[2]

\* UInt32 -> Int32 (FixWord): two's complement
ToInt32(x) ==
    IF x[1] >= Half \div 2 THEN (x[1] - Half) * Half + x[2] ELSE x[1] * Half + x[2]

\* UInt32 -> int of a value known to be below 2^31 (a masked table index)
ToInt(x) == x[1] * Half + x[2]

\* ------------------------------------------------------------------------
\* std::istream over a file: bytes, get position, eofbit, failbit
\* ------------------------------------------------------------------------
\* a freshly opened stream (ifstream ifs(path, ios_base::binary))
OpenStream(bytes) == [bytes |-> bytes, pos |-> 0, eof |-> FALSE, fail |-> FALSE]

\* is.eof()
Eof(s) == s.eof

\* is.get(): the next byte, or EOF (-1) with eofbit and failbit set when there
\* is none; on a stream that is not good() only failbit is set
Get(s) ==
    IF s.eof \/ s.fail
    THEN [c |-> -1, is |-> [s EXCEPT !.fail = TRUE]]
    ELSE IF s.pos < Len(s.bytes)
    THEN [c |-> s.bytes[s.pos + 1], is |-> [s EXCEPT !.pos = @ + 1]]
    ELSE [c |-> -1, is |-> [s EXCEPT !.eof = TRUE, !.fail = TRUE]]

\* is.seekg(off, ios_base::beg) / is.seekg(off, ios_base::cur), given the
\* absolute target. A file stream may be positioned past its end. The C++11
\* seekg first clears eofbit; either seekg does nothing on a failed stream.
Seekg(s, target, l) ==
    LET s1 == IF l = "cxx11" THEN [s EXCEPT !.eof = FALSE] ELSE s
    IN  IF s1.fail THEN s1
        ELSE IF target < 0 THEN [s1 EXCEPT !.fail = TRUE]
        ELSE [s1 EXCEPT !.pos = target]

\* ------------------------------------------------------------------------
\* read_unsigned
\* ------------------------------------------------------------------------
\* for (int i=n-1; i >= 0 && !is.eof(); i--) { UInt32 b = is.get(); ret |= b << (8*i); }
RECURSIVE read_unsigned_loop(_, _, _)
read_unsigned_loop(s, i, r) ==
    IF i >= 0 /\ ~Eof(s)
    THEN LET g == Get(s)
             b == IntToUInt32(g.c)
         IN  read_unsigned_loop(g.is, i - 1, Or32(r, Shl32(b, 8 * i)))
    ELSE [ret |-> r, is |-> s]

\* read_unsigned with its loop started one byte position too high
read_unsigned_from_n(s, n) == read_unsigned_loop(s, n, UInt32Zero)

read_unsigned(s, n) == read_unsigned_loop(s, n - 1, UInt32Zero)

\* ------------------------------------------------------------------------
\* read_words
\* ------------------------------------------------------------------------
\* v[i] = read_unsigned(is, 4): the conversion to the vector's element type
\* T (UInt32 for the char-info table, FixWord = Int32 for the metric tables)
ConvertTo(T, x) == IF T = "FixWord" THEN ToInt32(x) ELSE x

\* T(): the value v.resize(n) fills new elements with
ZeroOf(T) == IF T = "FixWord" THEN 0 ELSE UInt32Zero

\* for (unsigned i=0; i < n; i++) v[i] = read_unsigned(is, 4);
RECURSIVE read_words_loop(_, _, _, _, _)
read_words_loop(s, v, i, n, T) ==
    IF i < n
    THEN LET r == read_unsigned(s, 4)
         IN  read_words_loop(r.is, [v EXCEPT ![i + 1] = ConvertTo(T, r.ret)], i + 1, n, T)
    ELSE [v |-> v, is |-> s, threw |-> FALSE]

\* n is the int the caller passes for "unsigned n". A negative int converts
\* to 2^32 + n >= 2^32 - 65534 elements: v.resize(n) then exceeds
\* vector::max_size() on a 32-bit build (std::length_error) and 16 GiB of
\* memory elsewhere (std::bad_alloc); v has been cleared and stays empty.
read_words(s, n, T) ==
    IF n < 0
    THEN [v |-> <<>>, is |-> s, threw |-> TRUE]
    ELSE read_words_loop(s, [j \in 1..n |-> ZeroOf(T)], 0, n, T)

\* ------------------------------------------------------------------------
\* fix2double and double arithmetic
\* ------------------------------------------------------------------------
RECURSIVE Normalize(_, _)
Normalize(m, e) ==
    IF m = 0 THEN [m |-> 0, e |-> 0]
    ELSE IF m % 2 = 0 THEN Normalize(m \div 2, e + 1)
    ELSE [m |-> m, e |-> e]

\* double(fix)/(1 << 20)
fix2double(fix) == Normalize(fix, -20)

\* a * b on doubles (no rounding: the mantissa product stays below 2^53)
DoubleMul(a, b) == Normalize(a.m * b.m, a.e + b.e)

\* the int 0 of "return 0" converted to double
DoubleZero == Normalize(0, 0)

\* ------------------------------------------------------------------------
\* The TFM object
\* ------------------------------------------------------------------------
\* TFM::TFM (): the four scalars are 0 and the five vectors are empty
DefaultTFM ==
    [checksum |-> UInt32Zero, firstChar |-> 0, lastChar |-> 0, designSize |-> 0,
     charInfoTable |-> <<>>, widthTable |-> <<>>, heightTable |-> <<>>,
     depthTable |-> <<>>, italicTable |-> <<>>]

\* the char-info offset with lh taken for a byte count
CharInfoOffsetInBytes(lh) == 24 + lh

\* 24+lh*4: where the char-info table starts
CharInfoOffset(lh) == 24 + lh * 4

\* what TFM::readFromStream reads from stream s, statement by statement: the
\* header fields, then the five read_words calls (wt..it are not reached
\* when the first one throws)
StreamReads(s, l) ==
    LET s0  == Seekg(s, 2, l)
        rlh == read_unsigned(s0, 2)
        lh  == ToUInt16(rlh.ret)
        rfc == read_unsigned(rlh.is, 2)
        rlc == read_unsigned(rfc.is, 2)
        rnw == read_unsigned(rlc.is, 2)
        rnh == read_unsigned(rnw.is, 2)
        rnd == read_unsigned(rnh.is, 2)
        rni == read_unsigned(rnd.is, 2)
        s1  == Seekg(rni.is, rni.is.pos + 8, l)
        rcs == read_unsigned(s1, 4)
        rds == read_unsigned(rcs.is, 4)
        s2  == Seekg(rds.is, CharInfoOffset(lh), l)
        firstChar == ToUInt16(rfc.ret)
        lastChar  == ToUInt16(rlc.ret)
        ci  == read_words(s2, lastChar - firstChar + 1, "UInt32")
        wt  == read_words(ci.is, ToUInt16(rnw.ret), "FixWord")
        ht  == read_words(wt.is, ToUInt16(rnh.ret), "FixWord")
        dt  == read_words(ht.is, ToUInt16(rnd.ret), "FixWord")
        it  == read_words(dt.is, ToUInt16(rni.ret), "FixWord")
    IN  [firstChar |-> firstChar, lastChar |-> lastChar,
         checksum |-> rcs.ret, designSize |-> ToInt32(rds.ret),
         threw |-> ci.threw, ci |-> ci.v,
         wt |-> IF ci.threw THEN <<>> ELSE wt.v,
         ht |-> IF ci.threw THEN <<>> ELSE ht.v,
         dt |-> IF ci.threw THEN <<>> ELSE dt.v,
         it |-> IF ci.threw THEN <<>> ELSE it.v,
         is |-> IF ci.threw THEN ci.is ELSE it.is]

\* TFM::readFromStream on object t with the reads r of its stream: the
\* members assigned, the stream afterwards, and the return value (true) or
\* the exception leaving the function at the first read_words
readFromStreamWith(t, r) ==
    LET t1 == [t EXCEPT !.firstChar = r.firstChar, !.lastChar = r.lastChar,
                        !.checksum = r.checksum, !.designSize = r.designSize,
                        !.charInfoTable = r.ci]
    IN  IF r.threw
        THEN [result |-> "throw", is |-> r.is, tfm |-> t1]
        ELSE [result |-> "true", is |-> r.is,
              tfm |-> [t1 EXCEPT !.widthTable = r.wt, !.heightTable = r.ht,
                                 !.depthTable = r.dt, !.italicTable = r.it]]

\* ------------------------------------------------------------------------
\* The queries
\* ------------------------------------------------------------------------
\* unsigned(x) >= size, for a vector size below 2^31
UnsignedGE(x, size) == IF x < 0 THEN TRUE ELSE x >= size

\* the guard with only its upper bound
OutOfRangeUpperOnly(t, c) == c > t.lastChar

\* c < _firstChar || c > _lastChar || unsigned(c-_firstChar) >= _charInfoTable.size()
OutOfRange(t, c) ==
    \/ c < t.firstChar
    \/ c > t.lastChar
    \/ UnsignedGE(c - t.firstChar, Len(t.charInfoTable))

\* what a vector element read outside the vector can yield (undefined
\* behaviour): some FixWord, some UInt32
GarbageFix == {0, 2^20, -1}

GarbageWords == {UInt32Zero, UInt32Ones}

\* table[index] for a std::vector: the element, or undefined behaviour when
\* index is not below size(): any value, or a crash
VectorAt(table, index, garbage) ==
    IF 0 <= index /\ index < Len(table)
    THEN {[status |-> "returned", v |-> table[index + 1]]}
    ELSE {[status |-> "returned", v |-> g] : g \in garbage}
         \cup {[status |-> "crash", v |-> CHOOSE g \in garbage : TRUE]}

\* the body shared by the four queries: the guard, the index
\* (_charInfoTable[c-_firstChar] >> shift) & mask, the table read and the
\* scaling by the design size. reads lists the vector elements accessed.
charMetric(t, c, shift, mask, name, table) ==
    IF OutOfRange(t, c)
    THEN {[status |-> "returned", value |-> DoubleZero, reads |-> <<>>]}
    ELSE UNION {
        IF w.status = "crash"
        THEN {[status |-> "crash", value |-> DoubleZero,
               reads |-> << <<"charInfo", c - t.firstChar>> >>]}
        ELSE LET index == ToInt(And32(Shr32(w.v, shift), <<0, mask>>))
             IN  {[status |-> e.status,
                   value  |-> IF e.status = "returned"
                              THEN DoubleMul(fix2double(e.v), fix2double(t.designSize))
                              ELSE DoubleZero,
                   reads  |-> << <<"charInfo", c - t.firstChar>>, <<name, index>> >>]
                  : e \in VectorAt(table, index, GarbageFix)}
        : w \in VectorAt(t.charInfoTable, c - t.firstChar, GarbageWords)}

getCharWidth(t, c)  == charMetric(t, c, 24, 255, "width", t.widthTable)

getCharHeight(t, c) == charMetric(t, c, 20, 15, "height", t.heightTable)

\* getCharDepth with getCharHeight's shift
getCharDepthShift20(t, c) == charMetric(t, c, 20, 15, "depth", t.depthTable)

getCharDepth(t, c)  == charMetric(t, c, 16, 15, "depth", t.depthTable)

getItalicCorr(t, c) == charMetric(t, c, 10, 63, "italic", t.italicTable)

getDesignSize(t) == fix2double(t.designSize)

\* ------------------------------------------------------------------------
\* Inputs: the byte streams, character codes and files of the model
\* ------------------------------------------------------------------------
\* the C++ libraries a build can link (see Seekg)
Libs == {"cxx98", "cxx11"}

\* a 16-bit value as two bytes, most significant first
BE16(v) == <<v \div 256, v % 256>>

\* a 32-bit word as four bytes, most significant first
WordBytes(w) == BE16(w[1]) \o BE16(w[2])

RECURSIVE Flatten(_)
Flatten(ws) == IF ws = <<>> THEN <<>> ELSE WordBytes(Head(ws)) \o Flatten(Tail(ws))

\* char-info words, by pattern: for each pattern the words of even and odd
\* character offsets
\*   1: 0x00000000             every index 0
\*   2: 0x01120400 0x011207FF  width 1, height 1, depth 2, italic 1; the second
\*                             with tag 3 and remainder 0xFF
\*   3: 0x81000000 0x00F0FC00  width 129; height 15 and italic 63
\*   4: 0x011207FF 0x000F0000  as pattern 2; depth 15
CharInfoWords ==
    << << <<0, 0>>, <<0, 0>> >>,
       << <<274, 1024>>, <<274, 2047>> >>,
       << <<33024, 0>>, <<240, 64512>> >>,
       << <<274, 2047>>, <<15, 0>> >> >>

\* the i-th word of each metric table: 1.0, 1.5, ... for widths; 0.5, 0.75, ...
\* for heights; 0.25, ... for depths; -1.0, -0.5, ... for italic corrections
TableWord(name, i) ==
    CASE name = "width"  -> <<16 + 8 * (i - 1), 0>>
      [] name = "height" -> <<8 + 4 * (i - 1), 0>>
      [] name = "depth"  -> <<4 + (i - 1), 0>>
      [] name = "italic" -> <<65520 + 8 * (i - 1), 0>>

\* the i-th header word: checksum 0xABCD1234, designSize 0x00A00000 (10.0),
\* then words this reader never looks at
HeaderWord(i) ==
    IF i = 1 THEN <<43981, 4660>> ELSE IF i = 2 THEN <<160, 0>> ELSE <<30583, i>>

\* the TFM file with header length lh, character range fc..lc, table lengths
\* n = <<nw, nh, nd, ni>> and char-info pattern pat, less its last cut bytes
TFMBytes(p) ==
    LET count == IF p.lc - p.fc + 1 > 0 THEN p.lc - p.fc + 1 ELSE 0
        words == [i \in 1..p.lh |-> HeaderWord(i)]
                 \o [i \in 1..count |-> CharInfoWords[p.pat][((i - 1) % 2) + 1]]
                 \o [i \in 1..p.n[1] |-> TableWord("width", i)]
                 \o [i \in 1..p.n[2] |-> TableWord("height", i)]
                 \o [i \in 1..p.n[3] |-> TableWord("depth", i)]
                 \o [i \in 1..p.n[4] |-> TableWord("italic", i)]
        full  == <<0, 19>> \o BE16(p.lh) \o BE16(p.fc) \o BE16(p.lc)
                 \o BE16(p.n[1]) \o BE16(p.n[2]) \o BE16(p.n[3]) \o BE16(p.n[4])
                 \o <<0, 9, 0, 8, 0, 7, 0, 6>> \o Flatten(words)
    IN  SubSeq(full, 1, Len(full) - p.cut)

Param(lh, fc, lc, n, pat, cut) ==
    [lh |-> lh, fc |-> fc, lc |-> lc, n |-> n, pat |-> pat, cut |-> cut]

\* complete files whose indices are all valid
GoodParams ==
    {Param(lh, r[1], r[2], sp[1], sp[2], 0) :
        lh \in 0..MaxLh,
        r \in {<<0, 1>>, <<65, 65>>},
        sp \in {<< <<1, 1, 1, 1>>, 1 >>, << <<2, 2, 3, 2>>, 2 >>}}

\* complete files with an index outside its table
MalformedParams ==
    {Param(2, 0, 1, sp[1], sp[2], 0) :
        sp \in {<< <<1, 1, 1, 1>>, 3 >>, << <<2, 2, 3, 2>>, 4 >>, << <<0, 0, 0, 0>>, 1 >>}}

\* complete files with lastChar < firstChar
InvertedParams ==
    {Param(lh, r[1], r[2], n, 1, 0) :
        lh \in {0, 2},
        r \in {<<1, 0>>, <<2, 0>>, <<66, 64>>},
        n \in {<<1, 1, 1, 1>>, <<2, 2, 3, 2>>}}

\* files that end early: in the last table, in the width table, in the header
TruncatedParams ==
    {Param(2, 0, 1, <<2, 2, 3, 2>>, 2, cut) : cut \in 1..MaxCut}
    \cup {Param(2, 0, 1, <<2, 2, 3, 2>>, 2, 76 - len) : len \in {0, 3, 5, 24, 26, 30, 42}}
    \cup {Param(0, 65, 65, <<1, 1, 1, 1>>, 1, cut) : cut \in {1, 16}}

TFMStreams ==
    {TFMBytes(p) :
        p \in GoodParams \cup MalformedParams \cup InvertedParams \cup TruncatedParams}

\* the character codes queried
CharCodes == {-1, 0, 1, 2, 64, 65, 66}

\* the files the file system holds: contents, and whether they can be opened
Disk ==
    [path \in {"cmr10.tfm", "inv.tfm", "short.tfm", "locked.tfm"} |->
        [openable |-> path # "locked.tfm",
         bytes    |-> CASE path = "cmr10.tfm" -> TFMBytes(Param(2, 0, 1, <<2, 2, 3, 2>>, 2, 0))
                        [] path = "inv.tfm"   -> TFMBytes(Param(2, 2, 0, <<1, 1, 1, 1>>, 1, 0))
                        [] path = "short.tfm" -> TFMBytes(Param(2, 0, 1, <<2, 2, 3, 2>>, 2, 5))
                        [] OTHER              -> <<>>]]

FontNames == {"cmr10", "inv", "short", "locked", "missing"}

\* the bytes and streams handed to read_unsigned on its own
ByteVals == {0, 129, 255}

RECURSIVE SeqsUpTo(_, _)
SeqsUpTo(S, n) ==
    IF n = 0 THEN {<<>>}
    ELSE LET shorter == SeqsUpTo(S, n - 1)
         IN  shorter \cup {Append(q, x) : q \in {r \in shorter : Len(r) = n - 1}, x \in S}

\* ------------------------------------------------------------------------
\* readFromStream
\* ------------------------------------------------------------------------
\* TFM::readFromStream on object t, stream s, library l
readFromStream(t, s, l) == readFromStreamWith(t, StreamReads(s, l))

\* ------------------------------------------------------------------------
\* createFromFile
\* ------------------------------------------------------------------------
\* TFM::TFM (istream &is): readFromStream on the new object, whose vectors
\* start empty and whose scalars readFromStream assigns before any use
StreamCtor(s, l) == readFromStream(DefaultTFM, s, l)

\* FileFinder::lookup(filename): the path of the file, or the null pointer
FileFinder_lookup(disk, filename) ==
    IF filename \in DOMAIN disk THEN filename ELSE "NULL"

\* ifstream ifs(path, ios_base::binary); if (ifs) ...: whether the stream is
\* open. A null path is undefined behaviour (fopen of a null pointer): the
\* open fails, or the process is stopped by the C library.
IfstreamOpen(disk, path) ==
    IF path = "NULL" THEN {"closed", "crash"}
    ELSE IF disk[path].openable THEN {"open"}
    ELSE {"closed"}

\* what createFromFile hands back when the constructor ran: the object, or
\* the constructor's exception
Constructed(fontname, path, r) ==
    [fontname |-> fontname, path |-> path,
     kind |-> IF r.result = "true" THEN "object" ELSE "exception",
     loaded |-> TRUE, fileOpen |-> FALSE,
     tfm |-> r.tfm, is |-> r.is, result |-> r.result]

\* what createFromFile hands back when the stream is not open: "return 0",
\* or the crash of the undefined open
NotConstructed(fontname, path, o) ==
    [fontname |-> fontname, path |-> path,
     kind |-> IF o = "crash" THEN "crash" ELSE "null",
     loaded |-> FALSE, fileOpen |-> FALSE,
     tfm |-> DefaultTFM, is |-> OpenStream(<<>>), result |-> "none"]

\* TFM::createFromFile(fontname): the possible outcomes. ifs is a local: it
\* is destroyed, and the file closed, on return and when the constructor's
\* exception unwinds the frame.
createFromFile(disk, fontname, l) ==
    LET filename == fontname \o ".tfm"
        path     == FileFinder_lookup(disk, filename)
        opens    == IfstreamOpen(disk, path)
    IN  IF "open" \in opens
        THEN {Constructed(fontname, path, StreamCtor(OpenStream(disk[path].bytes), l))}
        ELSE {NotConstructed(fontname, path, o) : o \in opens}

\* ------------------------------------------------------------------------
\* State machine
\* ------------------------------------------------------------------------
NoStream == OpenStream(<<>>)

NoRet == [op |-> "none", c |-> 0, status |-> "none", value |-> DoubleZero, reads |-> <<>>]

NoCreate == [fontname |-> "", path |-> "", kind |-> "none", loaded |-> FALSE,
             fileOpen |-> FALSE]

NoRu == [n |-> -1, before |-> NoStream, value |-> UInt32Zero]

\* a default-constructed object, no call made yet
Init ==
    /\ lib \in Libs
    /\ obj = "live"
    /\ tfm = DefaultTFM
    /\ is = NoStream
    /\ loadResult = "none"
    /\ ret = NoRet
    /\ created = NoCreate
    /\ ru = NoRu

\* the caller holds no query result: it is free to make its next call
Idle == ret = NoRet

\* TFM::TFM ()
Construct ==
    /\ Idle
    /\ obj' = "live"
    /\ tfm' = DefaultTFM
    /\ is' = NoStream
    /\ loadResult' = "none"
    /\ created' = NoCreate
    /\ UNCHANGED <<lib, ret, ru>>

\* readFromStream(is) on the existing object, is a freshly opened stream
ReadFromStream(bytes) ==
    /\ Idle
    /\ obj = "live"
    /\ \E r \in {readFromStream(tfm, OpenStream(bytes), lib)} :
           /\ tfm' = r.tfm
           /\ is' = r.is
           /\ loadResult' = r.result
    /\ created' = NoCreate
    /\ UNCHANGED <<lib, obj, ret, ru>>

\* TFM::createFromFile(fontname)
CreateFromFile(fontname) ==
    /\ Idle
    /\ \E o \in createFromFile(Disk, fontname, lib) :
        /\ obj' = IF o.kind = "object" THEN "live" ELSE "none"
        /\ tfm' = o.tfm
        /\ is' = o.is
        /\ loadResult' = o.result
        /\ created' = [fontname |-> o.fontname, path |-> o.path, kind |-> o.kind,
                       loaded |-> o.loaded, fileOpen |-> o.fileOpen]
    /\ UNCHANGED <<lib, ret, ru>>

\* a query call on the existing object: ret records the call and its outcome
Query(op, c, outcomes) ==
    /\ Idle
    /\ obj = "live"
    /\ \E o \in outcomes :
        ret' = [op |-> op, c |-> c, status |-> o.status, value |-> o.value,
                reads |-> o.reads]
    /\ UNCHANGED <<lib, obj, tfm, is, loadResult, created, ru>>

GetCharWidth(c) == Query("getCharWidth", c, getCharWidth(tfm, c))

GetCharHeight(c) == Query("getCharHeight", c, getCharHeight(tfm, c))

GetCharDepth(c) == Query("getCharDepth", c, getCharDepth(tfm, c))

GetItalicCorr(c) == Query("getItalicCorr", c, getItalicCorr(tfm, c))

GetDesignSize ==
    Query("getDesignSize", 0,
          {[status |-> "returned", value |-> getDesignSize(tfm), reads |-> <<>>]})

\* the caller has used the query's result (after a crash: the process is
\* started again with the same object state) and goes on
TakeResult ==
    /\ ~Idle
    /\ ret' = NoRet
    /\ UNCHANGED <<lib, obj, tfm, is, loadResult, created, ru>>

Next ==
    \/ Construct
    \/ \E bytes \in TFMStreams : ReadFromStream(bytes)
    \/ \E fontname \in FontNames : CreateFromFile(fontname)
    \/ \E c \in CharCodes : GetCharWidth(c)
    \/ \E c \in CharCodes : GetCharHeight(c)
    \/ \E c \in CharCodes : GetCharDepth(c)
    \/ \E c \in CharCodes : GetItalicCorr(c)
    \/ GetDesignSize
    \/ TakeResult

Spec == Init /\ [][Next]_vars

\* ------------------------------------------------------------------------
\* read_unsigned on its own: a stream in any state a caller can leave it in
\* ------------------------------------------------------------------------
InitReadUnsigned ==
    /\ lib \in Libs
    /\ obj = "live"
    /\ tfm = DefaultTFM
    /\ \E bytes \in SeqsUpTo(ByteVals, MaxLen) : is = OpenStream(bytes)
    /\ loadResult = "none"
    /\ ret = NoRet
    /\ created = NoCreate
    /\ ru = NoRu

\* read_unsigned(is, n)
ReadUnsigned(n) ==
    /\ LET r == read_unsigned(is, n)
       IN  /\ is' = r.is
           /\ ru' = [n |-> n, before |-> is, value |-> r.ret]
    /\ UNCHANGED <<lib, obj, tfm, loadResult, ret, created>>

\* is.seekg(target, ios_base::beg)
SeekgBeg(target) ==
    /\ is' = Seekg(is, target, lib)
    /\ ru' = NoRu
    /\ UNCHANGED <<lib, obj, tfm, loadResult, ret, created>>

NextReadUnsigned ==
    \/ \E n \in 0..4 : ReadUnsigned(n)
    \/ \E target \in 0..(MaxLen + 1) : SeekgBeg(target)

SpecReadUnsigned == InitReadUnsigned /\ [][NextReadUnsigned]_vars

\* ------------------------------------------------------------------------
\* The byte layout and the bit layout, stated directly on the bytes
\* ------------------------------------------------------------------------
\* the big-endian 16-bit value at byte offset off (0-based) of b
U16At(b, off) == b[off + 1] * 256 + b[off + 2]

\* the big-endian 32-bit word at byte offset off, as <<hi, lo>>
U32At(b, off) == <<U16At(b, off), U16At(b, off + 2)>>

\* the same word read as a signed fix word
FixAt(b, off) ==
    (IF b[off + 1] >= 128 THEN b[off + 1] - 256 ELSE b[off + 1]) * 2^24
    + b[off + 2] * 2^16 + U16At(b, off + 2)

\* what the header of b declares (b holds at least its first 16 bytes)
Declared(b) ==
    [lh |-> U16At(b, 2), fc |-> U16At(b, 4), lc |-> U16At(b, 6),
     nw |-> U16At(b, 8), nh |-> U16At(b, 10), nd |-> U16At(b, 12), ni |-> U16At(b, 14),
     count |-> U16At(b, 6) - U16At(b, 4) + 1,
     base |-> 24 + 4 * U16At(b, 2)]

\* the n fix words that start at byte offset off
FixWordsAt(b, off, n) == [i \in 1..n |-> FixAt(b, off + 4 * (i - 1))]

\* the n words that start at byte offset off
WordsAt(b, off, n) == [i \in 1..n |-> U32At(b, off + 4 * (i - 1))]

\* the header is complete and b holds every table it declares
LongEnough(b) ==
    /\ Len(b) >= 32
    /\ Declared(b).count >= 0
    /\ LET d == Declared(b)
       IN  Len(b) >= d.base + 4 * (d.count + d.nw + d.nh + d.nd + d.ni)

\* the table counts are complete and b ends before the last declared word
Truncated(b) ==
    /\ Len(b) >= 16
    /\ Declared(b).count >= 0
    /\ LET d == Declared(b)
       IN  Len(b) < d.base + 4 * (d.count + d.nw + d.nh + d.nd + d.ni)

CharOps == {"getCharWidth", "getCharHeight", "getCharDepth", "getItalicCorr"}

\* ret.c has a char-info word
HasCharInfo ==
    /\ tfm.firstChar <= ret.c
    /\ ret.c <= tfm.lastChar
    /\ ret.c - tfm.firstChar < Len(tfm.charInfoTable)

\* the char-info word of ret.c
CharInfoOfRet == tfm.charInfoTable[ret.c - tfm.firstChar + 1]

\* the index fields of char-info word w = <<hi, lo>>: bits 31..24, 23..20,
\* 19..16 and 15..10
IndexField(op, w) ==
    CASE op = "getCharWidth"  -> w[1] \div 256
      [] op = "getCharHeight" -> (w[1] \div 16) % 16
      [] op = "getCharDepth"  -> w[1] % 16
      [] op = "getItalicCorr" -> w[2] \div 1024

TableOf(op) ==
    CASE op = "getCharWidth"  -> tfm.widthTable
      [] op = "getCharHeight" -> tfm.heightTable
      [] op = "getCharDepth"  -> tfm.depthTable
      [] op = "getItalicCorr" -> tfm.italicTable

TableNamed(name) ==
    CASE name = "charInfo" -> tfm.charInfoTable
      [] name = "width"    -> tfm.widthTable
      [] name = "height"   -> tfm.heightTable
      [] name = "depth"    -> tfm.depthTable
      [] name = "italic"   -> tfm.italicTable

\* x / 2^20 as a double
Fix(x) == Normalize(x, -20)

\* every element the last query read lies inside its vector
ReadsInBounds ==
    \A i \in 1..Len(ret.reads) :
        /\ 0 <= ret.reads[i][2]
        /\ ret.reads[i][2] < Len(TableNamed(ret.reads[i][1]))

\* bytes available at the cursor of stream s
Avail(s) == IF s.pos >= Len(s.bytes) THEN 0 ELSE Len(s.bytes) - s.pos

\* the value of an n-byte big-endian read at the cursor of s of which only
\* the first k bytes exist: byte j of the read is bits 8*(n-1-j) and up
BigEndianAt(s, n, k) ==
    LET lane(j) == IF j < n /\ n - 1 - j < k THEN s.bytes[s.pos + (n - 1 - j) + 1] ELSE 0
    IN  <<lane(3) * 256 + lane(2), lane(1) * 256 + lane(0)>>

\* ------------------------------------------------------------------------
\* Claims
\* ------------------------------------------------------------------------

\* C1: a query for a character in [firstChar, lastChar] whose index for the
\* queried metric is not below the length of that metric's table returns 0.0
\* and reads no vector element outside its vector.
C1_BadIndexYieldsZero ==
    (/\ ret.op \in CharOps
     /\ HasCharInfo
     /\ IndexField(ret.op, CharInfoOfRet) >= Len(TableOf(ret.op)))
    => /\ ret.status = "returned"
       /\ ret.value = DoubleZero
       /\ ReadsInBounds

\* C2: readFromStream never returns true for a stream that ends before the
\* last declared table word.
C2_TruncationFails ==
    loadResult = "true" => ~Truncated(is.bytes)

\* C3: for a character code below firstChar, above lastChar, or without a
\* char-info word, each of the four queries returns 0.0 and reads no table,
\* whatever the state of the object (loaded, reloaded or default-constructed).
C3_OutOfRangeIsZero ==
    (ret.op \in CharOps /\ ~HasCharInfo)
    => /\ ret.status = "returned"
       /\ ret.value = DoubleZero
       /\ ret.reads = <<>>

\* C3 witness: a loaded font with characters 0..1 and a non-empty width table
\* was asked for the width of character 2.
C3_Witness ==
    /\ ret.op = "getCharWidth"
    /\ ret.c = 2
    /\ loadResult = "true"
    /\ tfm.firstChar = 0
    /\ tfm.lastChar = 1
    /\ Len(tfm.charInfoTable) = 2
    /\ Len(tfm.widthTable) > 0
    /\ ret.value = DoubleZero

\* C4: after a load of a stream whose header declares lastChar < firstChar
\* (and which holds its four metric tables), readFromStream has returned
\* true, the char-info table is empty, the width table holds the words at
\* offset 24 + 4*lh, and every query returns 0.0.
C4_InvertedRangeIsEmpty ==
    (/\ loadResult # "none"
     /\ Len(is.bytes) >= 32
     /\ Declared(is.bytes).lc < Declared(is.bytes).fc
     /\ LET d == Declared(is.bytes)
        IN  Len(is.bytes) >= d.base + 4 * (d.nw + d.nh + d.nd + d.ni))
    => /\ loadResult = "true"
       /\ Len(tfm.charInfoTable) = 0
       /\ tfm.widthTable
            = FixWordsAt(is.bytes, Declared(is.bytes).base, Declared(is.bytes).nw)
       /\ ret.op \in CharOps => (ret.status = "returned" /\ ret.value = DoubleZero)

\* C5: for a character with a char-info word w whose four indices are all
\* valid, each query returns fix(table[index]) * fix(designSize), the index
\* being bits 31..24 (width), 23..20 (height), 19..16 (depth) or 15..10
\* (italic) of w, so that bits 9..0 play no part; and with characters 0..1,
\* char-info words 0, width table [0x00100000] and designSize 0x00A00000 the
\* widths of 0 and 1 are 10.0 (5 * 2^1).
C5_MetricFromBitFields ==
    (/\ ret.op \in CharOps
     /\ HasCharInfo
     /\ \A op \in CharOps : IndexField(op, CharInfoOfRet) < Len(TableOf(op)))
    => /\ ret.status = "returned"
       /\ ret.value
            = DoubleMul(Fix(TableOf(ret.op)[IndexField(ret.op, CharInfoOfRet) + 1]),
                        Fix(tfm.designSize))
       /\ (/\ ret.op = "getCharWidth"
           /\ tfm.firstChar = 0 /\ tfm.lastChar = 1
           /\ tfm.charInfoTable = <<UInt32Zero, UInt32Zero>>
           /\ tfm.widthTable = <<2^20>>
           /\ tfm.designSize = 10 * 2^20)
          => ret.value = [m |-> 5, e |-> 1]

\* C5 witness: the depth of a character whose char-info word has depth index
\* 2, height index 1 and all of bits 9..0 set: 0.375 * 10.0 = 15 * 2^-2.
C5_Witness ==
    /\ ret.op = "getCharDepth"
    /\ HasCharInfo
    /\ \A op \in CharOps : IndexField(op, CharInfoOfRet) < Len(TableOf(op))
    /\ CharInfoOfRet = <<274, 2047>>
    /\ tfm.designSize = 10 * 2^20
    /\ ret.value = [m |-> 15, e |-> -2]

\* C6: after readFromStream has returned for a stream that holds its 32
\* header bytes and every declared table word, firstChar, lastChar, checksum
\* and designSize are the values at bytes 4-5, 6-7, 24-27 and 28-31, the
\* tables are the words that start at 24 + 4*lh (lh from bytes 2-3), in the
\* order char-info, width, height, depth, italic, with the lengths
\* lastChar-firstChar+1 and nw, nh, nd, ni from bytes 8-15, and the cursor is
\* behind the last of them.
C6_LayoutDecoded ==
    (loadResult = "true" /\ LongEnough(is.bytes))
    => LET b  == is.bytes
           d  == Declared(b)
           o1 == d.base + 4 * d.count
           o2 == o1 + 4 * d.nw
           o3 == o2 + 4 * d.nh
           o4 == o3 + 4 * d.nd
       IN  /\ tfm.firstChar = d.fc
           /\ tfm.lastChar = d.lc
           /\ tfm.checksum = U32At(b, 24)
           /\ tfm.designSize = FixAt(b, 28)
           /\ tfm.charInfoTable = WordsAt(b, d.base, d.count)
           /\ tfm.widthTable = FixWordsAt(b, o1, d.nw)
           /\ tfm.heightTable = FixWordsAt(b, o2, d.nh)
           /\ tfm.depthTable = FixWordsAt(b, o3, d.nd)
           /\ tfm.italicTable = FixWordsAt(b, o4, d.ni)
           /\ is.pos = o4 + 4 * d.ni
           /\ ~is.eof /\ ~is.fail

\* C6 witness: a complete stream with a three-word header, two characters
\* and all four metric tables has been loaded.
C6_Witness ==
    /\ loadResult = "true"
    /\ LongEnough(is.bytes)
    /\ Declared(is.bytes).lh = 3
    /\ Len(tfm.charInfoTable) = 2
    /\ Len(tfm.widthTable) = 2
    /\ Len(tfm.depthTable) = 3
    /\ Len(tfm.italicTable) = 2

\* C7: a read_unsigned(is, n) that finds fewer than n bytes at the cursor
\* returns the bytes it found in the high-order positions of the n-byte value
\* and zero bits for the missing ones (0 when it starts at the end).
C7_ShortReadZeroFill ==
    (ru.n >= 0 /\ Avail(ru.before) < ru.n)
    => ru.value = BigEndianAt(ru.before, ru.n, Avail(ru.before))

\* C8: a read_unsigned(is, n), 0 <= n <= 4, that finds at least n bytes at
\* the cursor returns them as a big-endian number (first byte most
\* significant, 0 for n = 0), moves the cursor by n and changes nothing else
\* of the stream.
C8_ReadUnsignedBigEndian ==
    (ru.n >= 0 /\ Len(ru.before.bytes) - ru.before.pos >= ru.n)
    => /\ ru.value = BigEndianAt(ru.before, ru.n, ru.n)
       /\ is = [ru.before EXCEPT !.pos = @ + ru.n]

\* C8 witness: a four-byte read of a four-byte stream whose first byte has
\* its top bit set.
C8_Witness ==
    /\ ru.n = 4
    /\ ru.before.pos = 0
    /\ ~ru.before.eof /\ ~ru.before.fail
    /\ Len(ru.before.bytes) - ru.before.pos >= 4
    /\ ru.value[1] >= 2^15
    /\ ru.value[2] > 0

\* C9: createFromFile returns null, having read nothing, when the file is not
\* found or cannot be opened; otherwise it returns the object that
\* readFromStream builds from the file on a new object; and it leaves no file
\* open.
C9_CreateFromFile ==
    created.kind # "none"
    => LET filename == created.fontname \o ".tfm"
       IN  /\ ~created.fileOpen
           /\ IF filename \in DOMAIN Disk /\ Disk[filename].openable
              THEN /\ created.kind = "object"
                   /\ obj = "live"
                   /\ tfm = readFromStream(DefaultTFM,
                                           OpenStream(Disk[filename].bytes), lib).tfm
              ELSE /\ created.kind = "null"
                   /\ ~created.loaded

\* C10: whatever was loaded into the object before, after a readFromStream
\* call the tables and scalars are those a readFromStream of the same stream
\* leaves in a new object.
C10_ReloadEqualsFreshLoad ==
    (obj = "live" /\ loadResult # "none")
    => tfm = readFromStream(DefaultTFM, OpenStream(is.bytes), lib).tfm

\* C10, second part (it holds): a query changes no table and no scalar.
QueriesChangeNothing == [][ret' # ret => tfm' = tfm]_vars

====
